---- MODULE Spec2Model ----
(***************************************************************************)
(* Model of the kcat/flux pipeline: minimal-medium discovery               *)
(* (medium/minimal_media.py, medium/carbon_uptake.py), the scoped solver   *)
(* queries of flux/flux_prediction.py, the flux merge of                   *)
(* flux/process_fluxes.py and the tiered mapping of                        *)
(* kcat_flux_mapping/mapping.py.                                           *)
(*                                                                         *)
(* Uptake fluxes and growth rates are fixed-point numbers in hundredths:   *)
(* 10 (the uptake of a sampled exchange) is 1000, the growth threshold 0.1 *)
(* is 10, and round(x, 2) yields an integer number of hundredths.          *)
(***************************************************************************)
EXTENDS Integers, Sequences, FiniteSets, TLC

VARIABLES
    model_bounds,   \* the shared model: exchange id -> [lb, ub] (hundredths)
    history,        \* cobra's context stack: model_bounds saved by each open `with model:`
    oracle,         \* the solver's answers so far: bounds -> whether growth is above 0.1
    pc,             \* position in find_minimal_media / the flux queries
    idx,            \* loop index (exchange in find_c_sources, medium in the flux passes)
    c_sources,      \* dict: carbon source id -> carbon atoms
    c_bound,        \* carbon uptake bound of the model (hundredths)
    ess_ex,         \* essential exchange ids
    medium,         \* the medium being created / minimized: id -> uptake (hundredths)
    rand_c,         \* the chosen carbon sources: id -> carbon atoms
    old_medium,     \* minimize_medium's copy taken before a removal
    uptakes,        \* minimize_medium's shuffled list: the uptakes not yet visited
    uptake,         \* the uptake being removed
    growth_rate,    \* result of the last slim_optimize
    candidate,      \* the medium handed to minimize_medium (as create_medium returned it)
    minimal_media,  \* model_minimal_media: the media returned so far
    solver,         \* status of the last pfba / flux_variability_analysis call
    norm,           \* get_predicted_fluxes: the reference norm
    raw_df,         \* the frame a solver pass returned, before process_fluxes
    model_i,        \* get_predicted_fluxes: index of the model in the loop
    pfba_df,        \* processed parsimonious frame of the current model
    fva_m_df,       \* processed bounded variability frame of the current model
    fva_a_df,       \* processed open-uptake variability frame of the current model
    pfba_dfs,       \* dict: model id -> processed parsimonious frame
    fva_dfs,        \* dict: model id -> fva_m_df.fillna(fva_a_df)
    flux_dfs,       \* merge_fluxes: dict model id -> filled frame
    flux_df,        \* the merged flux table (a sequence of rows)
    kcat_df,        \* the kinetic dataset (a sequence of rows)
    exact_df,       \* map_kcat_to_fluxes: the joined table the tiers fill
    lin_i,          \* map_kcat_to_fluxes: position in the loop over lineage levels
    kcat_flux_df    \* the table map_kcat_to_fluxes returns

\* the tables of the mapping stage
map_vars == <<kcat_df, exact_df, lin_i, kcat_flux_df>>

\* the tables of the flux and mapping stages
table_vars == <<norm, raw_df, model_i, pfba_df, fva_m_df, fva_a_df, pfba_dfs,
                fva_dfs, flux_dfs, flux_df, map_vars>>

\* the state of medium discovery and of the model's context, pc excepted
medium_vars == <<model_bounds, history, oracle, idx, c_sources, c_bound, ess_ex,
                 medium, rand_c, old_medium, uptakes, uptake, growth_rate,
                 candidate, minimal_media, solver>>

vars == <<pc, medium_vars, table_vars>>

----------------------------------------------------------------------------
(* Bounds of the model *)

\* number of media found per model (find_minimal_media's `amount`)
Amount == 2

\* uptake of the baseline carbon source in the model's initial medium, in
\* hundredths (1.67 mmol/gDW/h)
InitGlcUptake == 167

\* oxygen uptake of the model's initial medium, in hundredths
InitO2Uptake == 2000

----------------------------------------------------------------------------
(* Program constants *)

\* growth threshold 0.1, in hundredths
Threshold == 10

\* uptake given to every sampled exchange and carbon source (10), in hundredths
SampledUptake == 1000

\* sample size ceiling of create_medium
SampleSize == 3

\* default oxygen flux and the bound exchanges are widened to (1000), in hundredths
OpenBound == 100000

\* float nan (the solver found no solution), kept apart from every growth rate
NaN == -1

\* what slim_optimize can return: nan when infeasible, else a growth rate
\* (exactly 0.1, which is not above the threshold, and 0.5)
GrowthRates == {NaN, Threshold, 50}

Exchanges == {"EX_glc__D_e", "EX_xyl__D_e", "EX_nh4_e", "EX_o2_e"}

\* model.exchanges in the model's order
ExchangeOrder == <<"EX_glc__D_e", "EX_xyl__D_e", "EX_nh4_e", "EX_o2_e">>

\* carbon atoms of the exchanged metabolite (0: elements.get('C') is None)
CountC(e) ==
    CASE e = "EX_glc__D_e" -> 6
      [] e = "EX_xyl__D_e"    -> 5
      [] OTHER             -> 0

\* init_c[model.id]: the baseline carbon sources of the model
InitC == {"EX_glc__D_e"}

\* the model as loaded: glucose, ammonium and oxygen can be taken
\* up, xylose cannot; glucose cannot be secreted
InitBounds ==
    [e \in Exchanges |->
        CASE e = "EX_glc__D_e" -> [lb |-> -InitGlcUptake, ub |-> 0]
          [] e = "EX_xyl__D_e"    -> [lb |-> 0, ub |-> OpenBound]
          [] e = "EX_o2_e"     -> [lb |-> -InitO2Uptake, ub |-> OpenBound]
          [] OTHER             -> [lb |-> -OpenBound, ub |-> OpenBound]]

----------------------------------------------------------------------------
(* Helpers *)

Min(a, b) == IF a < b THEN a ELSE b
Max(a, b) == IF a > b THEN a ELSE b

RECURSIVE SumOver(_, _)
\* sum of f[k] over the keys in S
SumOver(f, S) ==
    IF S = {} THEN 0
    ELSE LET k == CHOOSE x \in S : TRUE IN f[k] + SumOver(f, S \ {k})

\* dict with key k removed (dict.pop)
Pop(d, k) == [x \in DOMAIN d \ {k} |-> d[x]]

\* dict d updated with the entries of e
Update(d, e) == [x \in DOMAIN d \cup DOMAIN e |-> IF x \in DOMAIN e THEN e[x] ELSE d[x]]

EmptyDict == [x \in {} |-> 0]

\* a flux is a rational <<numerator, denominator>> in lowest terms with a
\* positive denominator; the missing value (np.nan) is the pair 0/0
nan == <<0, 0>>

\* pd.DataFrame(): no rows, no columns
EmptyFrame == [index |-> {}, columns |-> <<>>]

\* the flux and mapping stages have not started
NoTables ==
    /\ norm = nan
    /\ raw_df = EmptyFrame
    /\ model_i = 0
    /\ pfba_df = EmptyDict
    /\ fva_m_df = EmptyDict
    /\ fva_a_df = EmptyDict
    /\ pfba_dfs = EmptyDict
    /\ fva_dfs = EmptyDict
    /\ flux_dfs = EmptyDict
    /\ flux_df = <<>>
    /\ kcat_df = <<>>
    /\ exact_df = <<>>
    /\ lin_i = 0
    /\ kcat_flux_df = <<>>

\* subsets of S of size n (random.sample)
Samples(S, n) == {T \in SUBSET S : Cardinality(T) = n}

\* growth_rate > 0.1 (False for nan)
Above(g) == g # NaN /\ g > Threshold

----------------------------------------------------------------------------
(* cobra's model.medium and `with model:` *)

\* model.medium (getter): the exchanges with an open uptake direction
GetMedium(bounds) ==
    [e \in {x \in Exchanges : bounds[x].lb < 0} |-> -bounds[e].lb]

\* model.medium = m: uptake bounds of the medium's exchanges are set, every
\* other exchange's uptake is closed
SetMedium(bounds, m) ==
    [e \in Exchanges |->
        IF e \in DOMAIN m
        THEN [bounds[e] EXCEPT !.lb = -m[e]]
        ELSE [bounds[e] EXCEPT !.lb = IF @ < 0 THEN 0 ELSE @]]

\* reaction.bounds = (min(lb, -1000), max(ub, 1000)) for every exchange
WidenExchanges(bounds) ==
    [e \in Exchanges |->
        [lb |-> Min(bounds[e].lb, -OpenBound), ub |-> Max(bounds[e].ub, OpenBound)]]

\* a context that is left without undoing the changes made inside it
ExitContext_NoReset(bounds, saved) == bounds

\* leaving `with model:` undoes every change made inside it
ExitContext(bounds, saved) == saved

\* slim_optimize: growth is a function of the model's bounds. For bounds not
\* solved before the answer is any growth rate or nan; for bounds solved
\* before it is on the same side of the threshold as it was then. The side is
\* all the callers read of a growth rate, so the runs admitted are those of a
\* solver that is a function of the bounds, up to which of the rates on one
\* side it reports.
Answers(bounds) ==
    IF bounds \in DOMAIN oracle
    THEN {g \in GrowthRates : Above(g) = oracle[bounds]}
    ELSE GrowthRates

Record(bounds, g) ==
    [b \in DOMAIN oracle \cup {bounds} |-> IF b = bounds THEN Above(g) ELSE oracle[b]]

NoAnswers == [b \in {} |-> FALSE]

----------------------------------------------------------------------------
(* medium/carbon_uptake.py *)

\* Round2 truncating instead of rounding to the nearest hundredth
Round2_Truncated(n, d) == n \div d

\* round(n / d, 2) for n given in hundredths: the nearest hundredth, a tie
\* going to the even one
Round2(n, d) ==
    LET q == n \div d
        r == n % d
    IN  IF 2 * r < d THEN q
        ELSE IF 2 * r > d THEN q + 1
        ELSE IF q % 2 = 0 THEN q ELSE q + 1

normalize_carbon(m, rc, total_c_bound) ==
    LET cs      == DOMAIN rc \cap DOMAIN m
        total_c == SumOver(rc, cs)
        cb      == Round2(total_c_bound, total_c)
    IN  IF cs # {}
        THEN [k \in DOMAIN m |-> IF k \in cs THEN cb ELSE m[k]]
        ELSE m

\* find_c_bound: twice the carbon taken up in the model's medium
find_c_bound(bounds, cs) ==
    LET med == GetMedium(bounds)
        ks  == DOMAIN med \cap DOMAIN cs
    IN  2 * SumOver([i \in ks |-> cs[i] * med[i]], ks)

\* the medium is_carbon_source solves: baseline carbon sources closed, the
\* candidate source wide open
CarbonTestMedium(bounds, e) ==
    LET med == GetMedium(bounds)
    IN  [x \in DOMAIN med \cup {e} |->
            IF x = e THEN OpenBound
            ELSE IF x \in InitC THEN 0 ELSE med[x]]

\* find_c_sources, one exchange of the loop; is_carbon_source up to its solve
FindCSourcesStep ==
    /\ pc = "find_c_sources"
    /\ idx <= Len(ExchangeOrder)
    /\ LET e == ExchangeOrder[idx] IN
        IF CountC(e) = 0
        THEN /\ idx' = idx + 1
             /\ UNCHANGED <<model_bounds, history, oracle, pc, c_sources, growth_rate>>
        ELSE IF e \in InitC
        THEN /\ c_sources' = Update(c_sources, [x \in {e} |-> CountC(e)])
             /\ idx' = idx + 1
             /\ UNCHANGED <<model_bounds, history, oracle, pc, growth_rate>>
        ELSE /\ history' = Append(history, model_bounds)
             /\ model_bounds' = SetMedium(model_bounds, CarbonTestMedium(model_bounds, e))
             /\ \E g \in Answers(model_bounds') :
                    /\ growth_rate' = g
                    /\ oracle' = Record(model_bounds', g)
             /\ pc' = "is_carbon_source"
             /\ UNCHANGED <<idx, c_sources>>
    /\ UNCHANGED <<c_bound, ess_ex, medium, rand_c, old_medium, uptakes, uptake,
                   candidate, minimal_media, solver>>
    /\ UNCHANGED table_vars

\* is_carbon_source: leaving the context and returning growth_rate > 0.1
IsCarbonSourceExit ==
    /\ pc = "is_carbon_source"
    /\ model_bounds' = ExitContext(model_bounds, history[Len(history)])
    /\ history' = SubSeq(history, 1, Len(history) - 1)
    /\ c_sources' = IF Above(growth_rate)
                    THEN Update(c_sources, [x \in {ExchangeOrder[idx]} |-> CountC(ExchangeOrder[idx])])
                    ELSE c_sources
    /\ idx' = idx + 1
    /\ growth_rate' = NaN
    /\ pc' = "find_c_sources"
    /\ UNCHANGED <<oracle, c_bound, ess_ex, medium, rand_c, old_medium, uptakes,
                   uptake, candidate, minimal_media, solver>>
    /\ UNCHANGED table_vars

FindCBound ==
    /\ pc = "find_c_sources"
    /\ idx > Len(ExchangeOrder)
    /\ c_bound' = find_c_bound(model_bounds, c_sources)
    /\ idx' = 0
    /\ pc' = "find_essential_exc"
    /\ UNCHANGED <<model_bounds, history, oracle, c_sources, ess_ex, medium, rand_c,
                   old_medium, uptakes, uptake, growth_rate, candidate,
                   minimal_media, solver>>
    /\ UNCHANGED table_vars

----------------------------------------------------------------------------
(* medium/minimal_media.py *)

\* find_essential_exc: every exchange is widened inside the context
FindEssentialEnter ==
    /\ pc = "find_essential_exc"
    /\ history' = Append(history, model_bounds)
    /\ model_bounds' = WidenExchanges(model_bounds)
    /\ pc' = "find_essential_reactions"
    /\ UNCHANGED <<oracle, idx, c_sources, c_bound, ess_ex, medium, rand_c,
                   old_medium, uptakes, uptake, growth_rate, candidate,
                   minimal_media, solver>>
    /\ UNCHANGED table_vars

\* find_essential_reactions answers with some set of reactions; the exchanges
\* among them are kept
FindEssentialExit ==
    /\ pc = "find_essential_reactions"
    /\ \E ess \in SUBSET Exchanges : ess_ex' = ess
    /\ model_bounds' = ExitContext(model_bounds, history[Len(history)])
    /\ history' = SubSeq(history, 1, Len(history) - 1)
    /\ pc' = "create_medium"
    /\ UNCHANGED <<oracle, idx, c_sources, c_bound, medium, rand_c, old_medium,
                   uptakes, uptake, growth_rate, candidate, minimal_media, solver>>
    /\ UNCHANGED table_vars

\* the candidate of one pass of create_medium's loop, for the given draws
NewMedium(bounds, rand_ex, rc, o2_coin) ==
    LET mm       == GetMedium(bounds)
        o2_flux  == IF "EX_o2_e" \in DOMAIN mm THEN mm["EX_o2_e"] ELSE OpenBound
        essm     == [k \in DOMAIN mm \cap ess_ex |-> mm[k]]
        sampled  == [u \in rand_ex \cup DOMAIN rc |-> SampledUptake]
        normed   == normalize_carbon(Update(essm, sampled), rc, c_bound)
    IN  IF "EX_o2_e" \in Exchanges
        THEN Update(normed, [x \in {"EX_o2_e"} |->
                 IF o2_coin \/ "EX_o2_e" \in ess_ex THEN o2_flux ELSE 0])
        ELSE normed

\* exchanges that are neither in the essential medium nor carbon sources
OtherExchanges(bounds) ==
    Exchanges \ ((DOMAIN GetMedium(bounds) \cap ess_ex) \cup DOMAIN c_sources)

\* create_medium, one pass of `while True` up to the solve, for the draws
\* random.sample and random.random make: the candidate is built, then
\* with model: model.medium = medium; slim_optimize()
CreateDrawOf(rand_ex, ks, o2_coin) ==
    /\ pc = "create_medium"
    /\ Cardinality(OtherExchanges(model_bounds)) >= Min(SampleSize, Cardinality(DOMAIN c_sources))
    /\ rand_ex \in Samples(OtherExchanges(model_bounds), Min(SampleSize, Cardinality(DOMAIN c_sources)))
    /\ ks \in Samples(DOMAIN c_sources, Min(SampleSize, Cardinality(DOMAIN c_sources)))
    /\ rand_c' = [k \in ks |-> c_sources[k]]
    /\ medium' = NewMedium(model_bounds, rand_ex, rand_c', o2_coin)
    /\ history' = Append(history, model_bounds)
    /\ model_bounds' = SetMedium(model_bounds, medium')
    /\ \E g \in Answers(model_bounds') :
            /\ growth_rate' = g
            /\ oracle' = Record(model_bounds', g)
    /\ pc' = "create_with"
    /\ UNCHANGED <<idx, c_sources, c_bound, ess_ex, old_medium, uptakes, uptake,
                   candidate, minimal_media, solver>>
    /\ UNCHANGED table_vars

CreateDraw ==
    \E rand_ex \in SUBSET Exchanges, ks \in SUBSET Exchanges, o2_coin \in BOOLEAN :
        CreateDrawOf(rand_ex, ks, o2_coin)

\* random.sample raises ValueError when the sample is larger than the
\* population: fewer other exchanges than min(3, len(c_sources))
CreateValueError ==
    /\ pc = "create_medium"
    /\ Cardinality(OtherExchanges(model_bounds)) < Min(SampleSize, Cardinality(DOMAIN c_sources))
    /\ pc' = "ValueError"
    /\ UNCHANGED <<model_bounds, history, oracle, idx, c_sources, c_bound, ess_ex,
                   medium, rand_c, old_medium, uptakes, uptake, growth_rate,
                   candidate, minimal_media, solver>>
    /\ UNCHANGED table_vars

\* whether create_medium's loop ends with this candidate
Accepts(g) == Above(g)

\* the context is left; break if growth is above 0.1, else draw again. On
\* break create_medium returns and minimize_medium starts:
\* uptakes = list(set(medium) - set(ess_ex)); random.shuffle(uptakes). The
\* order is random and nothing but the loop reads it, so the list is kept as
\* the set of uptakes still to visit and MinRemove draws the next one: every
\* visiting order of the shuffled list is a run of the loop and conversely.
CreateExit ==
    /\ pc = "create_with"
    /\ model_bounds' = ExitContext(model_bounds, history[Len(history)])
    /\ history' = SubSeq(history, 1, Len(history) - 1)
    /\ IF Accepts(growth_rate)
       THEN /\ candidate' = medium
            /\ uptakes' = DOMAIN medium \ ess_ex
            /\ pc' = "minimize_medium"
            /\ UNCHANGED <<medium, rand_c>>
       ELSE /\ medium' = EmptyDict
            /\ rand_c' = EmptyDict
            /\ pc' = "create_medium"
            /\ UNCHANGED <<candidate, uptakes>>
    /\ growth_rate' = NaN
    /\ UNCHANGED <<oracle, idx, c_sources, c_bound, ess_ex, old_medium, uptake,
                   minimal_media, solver>>
    /\ UNCHANGED table_vars

\* the medium with one uptake removed, carbon re-normalized if it was a
\* chosen carbon source
Remove(m, u, rc, cb) ==
    IF u \in DOMAIN rc THEN normalize_carbon(Pop(m, u), rc, cb) ELSE Pop(m, u)

\* minimize_medium, one pass of the loop up to the solve
MinRemove ==
    /\ pc = "minimize_medium"
    /\ uptakes # {}
    /\ \E u \in uptakes : uptake' = u
    /\ uptakes' = uptakes \ {uptake'}
    /\ old_medium' = medium
    /\ medium' = Remove(medium, uptake', rand_c, c_bound)
    /\ history' = Append(history, model_bounds)
    /\ model_bounds' = SetMedium(model_bounds, medium')
    /\ \E g \in Answers(model_bounds') :
            /\ growth_rate' = g
            /\ oracle' = Record(model_bounds', g)
    /\ pc' = "minimize_with"
    /\ UNCHANGED <<idx, c_sources, c_bound, ess_ex, rand_c, candidate,
                   minimal_media, solver>>
    /\ UNCHANGED table_vars

\* a failed removal that is not rolled back
AfterRemoval_NoRollback(m, old, g) == m

\* a failed removal rolled back to the model's own medium instead of the copy
AfterRemoval_ModelMedium(m, old, g) ==
    IF ~ Above(g) THEN GetMedium(history[1]) ELSE m

\* the medium minimize_medium goes on with after a removal that gave growth g
AfterRemoval(m, old, g) == IF ~ Above(g) THEN old ELSE m

\* the context is left; the removal is kept or rolled back
MinExit ==
    /\ pc = "minimize_with"
    /\ model_bounds' = ExitContext(model_bounds, history[Len(history)])
    /\ history' = SubSeq(history, 1, Len(history) - 1)
    /\ medium' = AfterRemoval(medium, old_medium, growth_rate)
    /\ old_medium' = EmptyDict
    /\ uptake' = ""
    /\ growth_rate' = NaN
    /\ pc' = "minimize_medium"
    /\ UNCHANGED <<oracle, idx, c_sources, c_bound, ess_ex, rand_c, uptakes,
                   candidate, minimal_media, solver>>
    /\ UNCHANGED table_vars

\* return medium; find_minimal_media appends it and goes on with the next
\* one. After the last one find_minimal_media returns minimal_media: its
\* locals are gone, and the growth rates solved for are of no further use.
MinReturn ==
    /\ pc = "minimize_medium"
    /\ uptakes = {}
    /\ minimal_media' = Append(minimal_media, medium)
    /\ medium' = EmptyDict
    /\ rand_c' = EmptyDict
    /\ candidate' = EmptyDict
    /\ IF Len(minimal_media') < Amount
       THEN /\ pc' = "create_medium"
            /\ UNCHANGED <<idx, oracle, c_sources, c_bound, ess_ex>>
       ELSE /\ pc' = "pfba_for_media"
            /\ idx' = 1
            /\ oracle' = NoAnswers
            /\ c_sources' = EmptyDict
            /\ c_bound' = 0
            /\ ess_ex' = {}
    /\ UNCHANGED <<model_bounds, history, old_medium, uptakes, uptake,
                   growth_rate, solver>>
    /\ UNCHANGED table_vars

----------------------------------------------------------------------------
(* flux/flux_prediction.py: the solver queries and their contexts *)

SolverStatus == {"optimal", "infeasible"}

\* pfba_for_media / fva_for_media: with model: model.medium = medium; solve
MediaSolveEnter(at) ==
    /\ pc = at
    /\ idx <= Len(minimal_media)
    /\ history' = Append(history, model_bounds)
    /\ model_bounds' = SetMedium(model_bounds, minimal_media[idx])
    /\ \E s \in SolverStatus : solver' = s
    /\ pc' = at \o "_with"
    /\ UNCHANGED <<oracle, idx, c_sources, c_bound, ess_ex, medium, rand_c,
                   old_medium, uptakes, uptake, growth_rate, candidate, minimal_media>>
    /\ UNCHANGED table_vars

\* the context is left, on the normal path and when Infeasible was raised
MediaSolveExit(at, next) ==
    /\ pc = at \o "_with"
    /\ model_bounds' = ExitContext(model_bounds, history[Len(history)])
    /\ history' = SubSeq(history, 1, Len(history) - 1)
    /\ solver' = solver
    /\ IF idx < Len(minimal_media)
       THEN idx' = idx + 1 /\ pc' = at
       ELSE idx' = 1 /\ pc' = next
    /\ UNCHANGED <<oracle, c_sources, c_bound, ess_ex, medium, rand_c, old_medium,
                   uptakes, uptake, growth_rate, candidate, minimal_media>>
    /\ UNCHANGED table_vars

PfbaEnter == MediaSolveEnter("pfba_for_media")
PfbaExit  == MediaSolveExit("pfba_for_media", "fva_for_media")
FvaEnter  == MediaSolveEnter("fva_for_media")
FvaExit   == MediaSolveExit("fva_for_media", "fva_all_uptakes")

\* fva_all_uptakes: every exchange is widened inside the context, then solved
FvaAllEnter ==
    /\ pc = "fva_all_uptakes"
    /\ history' = Append(history, model_bounds)
    /\ model_bounds' = WidenExchanges(model_bounds)
    /\ \E s \in SolverStatus : solver' = s
    /\ pc' = "fva_all_uptakes_with"
    /\ UNCHANGED <<oracle, idx, c_sources, c_bound, ess_ex, medium, rand_c,
                   old_medium, uptakes, uptake, growth_rate, candidate, minimal_media>>
    /\ UNCHANGED table_vars

FvaAllExit ==
    /\ pc = "fva_all_uptakes_with"
    /\ model_bounds' = ExitContext(model_bounds, history[Len(history)])
    /\ history' = SubSeq(history, 1, Len(history) - 1)
    /\ solver' = solver
    /\ pc' = "done"
    /\ UNCHANGED <<oracle, idx, c_sources, c_bound, ess_ex, medium, rand_c,
                   old_medium, uptakes, uptake, growth_rate, candidate, minimal_media>>
    /\ UNCHANGED table_vars

----------------------------------------------------------------------------

Init ==
    /\ NoTables
    /\ model_bounds = InitBounds
    /\ history = <<>>
    /\ oracle = NoAnswers
    /\ pc = "find_c_sources"
    /\ idx = 1
    /\ c_sources = EmptyDict
    /\ c_bound = 0
    /\ ess_ex = {}
    /\ medium = EmptyDict
    /\ rand_c = EmptyDict
    /\ old_medium = EmptyDict
    /\ uptakes = {}
    /\ uptake = ""
    /\ growth_rate = NaN
    /\ candidate = EmptyDict
    /\ minimal_media = <<>>
    /\ solver = "none"

Next ==
    \/ FindCSourcesStep
    \/ IsCarbonSourceExit
    \/ FindCBound
    \/ FindEssentialEnter
    \/ FindEssentialExit
    \/ CreateDraw
    \/ CreateValueError
    \/ CreateExit
    \/ MinRemove
    \/ MinExit
    \/ MinReturn
    \/ PfbaEnter
    \/ PfbaExit
    \/ FvaEnter
    \/ FvaExit
    \/ FvaAllEnter
    \/ FvaAllExit

Spec == Init /\ [][Next]_vars

----------------------------------------------------------------------------
(* Properties of medium discovery and of the scoped queries *)

\* minimize_medium is at its `return medium`
AtReturn == pc = "minimize_medium" /\ uptakes = {}

\* minimize_medium is running (between two passes of its loop, or at return)
InMinimize == pc \in {"minimize_medium", "minimize_with"}

\* the bounds the model has while medium m is solved
BoundsOf(m) == SetMedium(InitBounds, m)

\* the solver has answered for medium m, and growth was above 0.1
GrowsAbove(m) == BoundsOf(m) \in DOMAIN oracle /\ oracle[BoundsOf(m)]

\* C1: the medium minimize_medium holds, and the one it returns, has no key
\* that the candidate medium passed in did not have.
C1_NeverAddsUptake ==
    InMinimize => DOMAIN medium \subseteq DOMAIN candidate

\* minimize_medium returns a medium from which uptakes were removed, a chosen
\* carbon source among them, after at least one removal was rolled back
C1_Witness ==
    /\ AtReturn
    /\ DOMAIN medium # DOMAIN candidate
    /\ DOMAIN rand_c \ DOMAIN medium # {}
    /\ DOMAIN medium \ ess_ex # {}

\* C2: every essential exchange of the candidate medium is in the returned
\* medium with the uptake bound it had in the candidate.
C2_EssentialKeepsBound ==
    AtReturn =>
        \A e \in ess_ex \cap DOMAIN candidate :
            e \in DOMAIN medium /\ medium[e] = candidate[e]

\* C3: the candidate create_medium returns has growth above 0.1, the medium
\* minimize_medium holds between two removals and at return has growth above
\* 0.1, and so has every medium find_minimal_media has collected.
C3_GrowthSustained ==
    /\ pc = "minimize_medium" => GrowsAbove(medium)
    /\ InMinimize => GrowsAbove(candidate)
    /\ pc \in {"create_medium", "create_with", "minimize_medium", "minimize_with"} =>
            \A i \in 1..Len(minimal_media) : GrowsAbove(minimal_media[i])

\* a removal was just rolled back: the solver answered nan or a growth not
\* above 0.1 for the reduced medium, and minimize_medium is back at the copy
C3_Witness ==
    /\ pc = "minimize_medium"
    /\ \E u \in DOMAIN medium \ (ess_ex \cup uptakes) :
            /\ BoundsOf(Remove(medium, u, rand_c, c_bound)) \in DOMAIN oracle
            /\ ~ oracle[BoundsOf(Remove(medium, u, rand_c, c_bound))]
    /\ DOMAIN medium # DOMAIN candidate
    /\ Len(minimal_media) = 1

\* b2 permits every flux b1 permits
Wider(b1, b2) == \A e \in Exchanges : b2[e].lb <= b1[e].lb /\ b1[e].ub <= b2[e].ub

\* the answers so far are those of a solver whose growth never falls when
\* bounds are widened (a linear program's optimum)
MonotoneOracle ==
    \A b1, b2 \in DOMAIN oracle : Wider(b1, b2) /\ oracle[b1] => oracle[b2]

\* C4: the returned medium is irreducible: no non-essential uptake of it can
\* be removed (carbon re-normalized when it is a chosen carbon source) with
\* growth staying above 0.1. Stated for the answers the solver has given, of
\* a solver that is monotone in the bounds.
C4_Irreducible ==
    AtReturn /\ MonotoneOracle =>
        \A u \in DOMAIN medium \ ess_ex :
            ~ GrowsAbove(Remove(medium, u, rand_c, c_bound))

\* carbon taken up through the chosen carbon sources present in m
\* (uptake x carbon atoms, in hundredths)
CarbonUptake(m, rc) ==
    SumOver([k \in DOMAIN rc \cap DOMAIN m |-> m[k] * rc[k]], DOMAIN rc \cap DOMAIN m)

\* the medium at hand went through normalize_carbon
Normalized == pc \in {"create_with", "minimize_medium", "minimize_with"}

\* C5 as stated: after normalize_carbon the chosen carbon sources present in
\* the medium carry exactly the carbon bound.
C5_CarbonEqualsBound ==
    Normalized /\ DOMAIN rand_c \cap DOMAIN medium # {} =>
        CarbonUptake(medium, rand_c) = c_bound

\* C5 as amended: after normalize_carbon the carbon carried by the chosen
\* carbon sources present in the medium differs from the carbon bound by at
\* most the rounding of the uptake to two decimals, 0.005 x their carbon atoms.
C5_CarbonWithinRounding ==
    Normalized /\ DOMAIN rand_c \cap DOMAIN medium # {} =>
        LET total_c == SumOver(rand_c, DOMAIN rand_c \cap DOMAIN medium)
            diff    == CarbonUptake(medium, rand_c) - c_bound
        IN  2 * diff <= total_c /\ -2 * diff <= total_c

\* carbon was re-normalized after a chosen carbon source was removed, and the
\* rounded uptake does not carry the bound exactly
C5_Witness ==
    /\ pc = "minimize_medium"
    /\ DOMAIN rand_c \cap DOMAIN medium # {}
    /\ DOMAIN rand_c \ DOMAIN medium # {}
    /\ CarbonUptake(medium, rand_c) # c_bound

\* C9: outside every `with model:` the model has the bounds (hence the
\* medium) it had before the query, whatever the solver answered; inside one,
\* the bounds saved are those.
C9_ModelRestored ==
    /\ history = <<>> => model_bounds = InitBounds
    /\ history # <<>> => history = <<InitBounds>>

\* every query has run, the last medium-wise solve and the open-uptake solve
\* after overriding the bounds, the last one signalling infeasibility
C9_Witness ==
    /\ pc = "done"
    /\ solver = "infeasible"
    /\ history = <<>>
    /\ model_bounds = InitBounds
    /\ \E i \in 1..Len(minimal_media) : BoundsOf(minimal_media[i]) # InitBounds

----------------------------------------------------------------------------
(* create_medium on its own: its retry loop under fair random draws *)

\* find_minimal_media is about to call create_medium for the first time:
\* find_c_sources has tested xylose, find_c_bound and find_essential_exc have
\* returned
CreateInit ==
    /\ NoTables
    /\ model_bounds = InitBounds
    /\ history = <<>>
    /\ \E is_source \in BOOLEAN :
        /\ oracle = [b \in {SetMedium(InitBounds, CarbonTestMedium(InitBounds, "EX_xyl__D_e"))}
                        |-> is_source]
        /\ c_sources = [e \in (IF is_source THEN {"EX_glc__D_e", "EX_xyl__D_e"}
                                            ELSE {"EX_glc__D_e"}) |-> CountC(e)]
    /\ c_bound = find_c_bound(InitBounds, c_sources)
    /\ ess_ex \in SUBSET Exchanges
    /\ pc = "create_medium"
    /\ idx = 0
    /\ medium = EmptyDict
    /\ rand_c = EmptyDict
    /\ old_medium = EmptyDict
    /\ uptakes = {}
    /\ uptake = ""
    /\ growth_rate = NaN
    /\ candidate = EmptyDict
    /\ minimal_media = <<>>
    /\ solver = "none"

CreateNext ==
    \/ CreateDraw
    \/ CreateValueError
    \/ CreateExit

\* the program keeps running: a step create_medium can take is taken
CreateFairness == WF_vars(CreateNext)

CreateSpec == CreateInit /\ [][CreateNext]_vars /\ CreateFairness

\* the media create_medium can draw
Candidates ==
    LET n == Min(SampleSize, Cardinality(DOMAIN c_sources))
    IN  {NewMedium(InitBounds, rand_ex, [k \in ks |-> c_sources[k]], o2_coin) :
            rand_ex \in Samples(OtherExchanges(InitBounds), n),
            ks \in Samples(DOMAIN c_sources, n),
            o2_coin \in BOOLEAN}

\* the solver has answered for every candidate create_medium can draw, and
\* none grows above 0.1
NoCandidateGrows ==
    \A m \in Candidates : BoundsOf(m) \in DOMAIN oracle /\ ~ oracle[BoundsOf(m)]

\* C10: create_medium imposes a retry ceiling: when every candidate it can
\* draw is infeasible or has growth not above 0.1, it ends (with a reported
\* failure) instead of retrying forever.
C10_RetryCeiling ==
    (pc = "create_medium" /\ NoCandidateGrows) ~> (pc \notin {"create_medium", "create_with"})

----------------------------------------------------------------------------
(* Tables: rationals and pandas frames *)
(*                                                                         *)
(* A raw frame, as the solver passes return it, is                         *)
(* [index |-> set of reaction ids, columns |-> sequence of columns], each  *)
(* column a function from the index to a flux.  A processed frame is a     *)
(* sequence of rows; a row is a record whose field `index` is the row's    *)
(* index label and whose other fields are the columns.                     *)

Abs(n) == IF n < 0 THEN -n ELSE n

RECURSIVE GCD(_, _)
GCD(a, b) == IF b = 0 THEN a ELSE GCD(b, a % b)

\* the rational n/d in lowest terms
Q(n, d) ==
    LET g == GCD(Abs(n), Abs(d))
    IN  IF d < 0 THEN <<(-n) \div g, (-d) \div g>> ELSE <<n \div g, d \div g>>

isna(q) == q[2] = 0
notna(q) == ~ isna(q)

\* arithmetic with np.nan: any operation on a missing value is missing
QAbs(q) == <<Abs(q[1]), q[2]>>
QAdd(a, b) == IF isna(a) \/ isna(b) THEN nan ELSE Q(a[1] * b[2] + b[1] * a[2], a[2] * b[2])
QMul(a, b) == IF isna(a) \/ isna(b) THEN nan ELSE Q(a[1] * b[1], a[2] * b[2])
\* a / b, b not zero
QDiv(a, b) == IF isna(a) \/ isna(b) THEN nan ELSE Q(a[1] * b[2], a[2] * b[1])
\* a < b; a comparison with np.nan is False
QLess(a, b) == notna(a) /\ notna(b) /\ a[1] * b[2] < b[1] * a[2]

RECURSIVE QSum(_)
\* sum of a sequence of resolved values
QSum(s) == IF s = <<>> THEN Q(0, 1) ELSE QAdd(Head(s), QSum(Tail(s)))

\* Series.mean(): the mean of the values that are not missing, np.nan when
\* there is none
QMean(s) ==
    LET present == SelectSeq(s, notna)
    IN  IF present = <<>> THEN nan ELSE QDiv(QSum(present), Q(Len(present), 1))

\* the reactions of a model, in the model's order
Reactions == <<"PGI", "PFK">>

\* the ids of Reactions that are in S, in the model's order
InOrder(S) == SelectSeq(Reactions, LAMBDA r : r \in S)

\* model.tolerance; fluxes are measured in units of it
Tolerance == Q(1, 1)

\* the values of column col, in the model's order
Values(col) == [i \in 1..Len(InOrder(DOMAIN col)) |-> col[InOrder(DOMAIN col)[i]]]

\* df[df < model.tolerance] = np.nan, on one column
Suppress(col) == [r \in DOMAIN col |-> IF QLess(col[r], Tolerance) THEN nan ELSE col[r]]

\* x * (norm / x.mean(axis=0)), on one column.  When the column's mean is 0
\* every resolved value of the column is 0 (the values are absolute), norm /
\* mean is inf and 0 * inf is np.nan.
Normalize(col, nrm) ==
    LET mean == QMean(Values(col))
    IN  [r \in DOMAIN col |->
            IF isna(mean) \/ isna(nrm) \/ mean[1] = 0 THEN nan
            ELSE QMul(col[r], QDiv(nrm, mean))]

\* df.mean(axis=1): per reaction, the mean over the columns
RowMean(df) ==
    [r \in df.index |-> QMean([i \in 1..Len(df.columns) |-> df.columns[i][r]])]

\* the rows of the one-column frame {'flux': col}
FluxFrame(col) ==
    [i \in 1..Len(InOrder(DOMAIN col)) |->
        [index |-> InOrder(DOMAIN col)[i], flux |-> col[InOrder(DOMAIN col)[i]]]]

\* process_fluxes without the thresholding of the averaged flux
process_fluxes_NoThreshold(df, nrm, is_pfba) ==
    LET abs == [i \in 1..Len(df.columns) |->
                   [r \in df.index |-> QAbs(df.columns[i][r])]]
        low == [i \in 1..Len(abs) |-> IF is_pfba THEN Suppress(abs[i]) ELSE abs[i]]
        per_medium == [i \in 1..Len(low) |-> Normalize(low[i], nrm)]
        mean == RowMean([index |-> df.index, columns |-> per_medium])
    IN  FluxFrame(Normalize(IF is_pfba THEN Suppress(mean) ELSE mean, nrm))

process_fluxes(df, nrm, is_pfba) ==
    LET abs == [i \in 1..Len(df.columns) |->
                   [r \in df.index |-> QAbs(df.columns[i][r])]]
        low == [i \in 1..Len(abs) |-> IF is_pfba THEN Suppress(abs[i]) ELSE abs[i]]
        per_medium == [i \in 1..Len(low) |-> Normalize(low[i], nrm)]
        mean == RowMean([index |-> df.index, columns |-> per_medium])
    IN  FluxFrame(Normalize(Suppress(mean), nrm))

\* the index labels of a frame
IndexOf(df) == {df[i].index : i \in 1..Len(df)}

\* the row of df labelled k (labels of df are unique)
Row(df, k) == df[CHOOSE i \in 1..Len(df) : df[i].index = k]

find_zero_fluxes(df) == {df[i].index : i \in {j \in 1..Len(df) : isna(df[j].flux)}}

\* whether column c of a row holds a missing value
IsMissing(row, c) ==
    CASE c = "from_fva" -> row[c] = "nan"
      [] c \in {"flux", "log10_flux", "log10_kcat"} -> isna(row[c])
      [] OTHER -> FALSE

\* reversed fill: the filling frame's rows, filled from self
fillna_Reversed(self, other) ==
    [i \in 1..Len(other) |->
        [c \in DOMAIN other[i] |->
            IF /\ c # "index"
               /\ IsMissing(other[i], c)
               /\ other[i].index \in IndexOf(self)
               /\ c \in DOMAIN Row(self, other[i].index)
            THEN Row(self, other[i].index)[c]
            ELSE other[i][c]]]

\* DataFrame.fillna(DataFrame): a missing cell of self takes the cell of
\* other at the same index label and column, when other has that label and
\* column; rows and columns of self are kept as they are
fillna(self, other) ==
    [i \in 1..Len(self) |->
        [c \in DOMAIN self[i] |->
            IF /\ c # "index"
               /\ IsMissing(self[i], c)
               /\ self[i].index \in IndexOf(other)
               /\ c \in DOMAIN Row(other, self[i].index)
            THEN Row(other, self[i].index)[c]
            ELSE self[i][c]]]

----------------------------------------------------------------------------
(* flux/process_fluxes.py: get_predicted_fluxes *)

\* Bounds of the flux stage
MediaCount == 1

\* the models, in the order of the list handed to get_predicted_fluxes
ModelIds == <<"iML1515", "iJO1366">>

\* the fluxes a solver returns for a reaction, in units of the tolerance
RawFluxes == {Q(-4, 1), Q(0, 1), Q(1, 2), Q(2, 1)}

\* the organisms get_organisms finds for the models (the first word of the
\* organism name); the taxonomy has no lineage for the last one
ModelOrganisms == {"Escherichia", "Bacillus", "Candidatus"}

RECURSIVE Flatten(_)
\* pd.concat(..., axis=1) of the per-medium results
Flatten(ss) == IF ss = <<>> THEN <<>> ELSE Head(ss) \o Flatten(Tail(ss))

\* what pfba returns for one medium: no column when Infeasible was raised,
\* else the column of fluxes of all reactions
PfbaResults == {<<>>} \cup {<<c>> : c \in [{Reactions[i] : i \in 1..Len(Reactions)} -> RawFluxes]}

\* what flux_variability_analysis returns for one medium and a reaction list:
\* nothing when Infeasible was raised, else the columns minimum and maximum
FvaResults(reaction_list) ==
    {<<>>} \cup
    {<<lo, hi>> : lo \in [reaction_list -> RawFluxes], hi \in [reaction_list -> RawFluxes]}

\* minimum <= maximum in every row
Ordered(res) == res = <<>> \/ \A r \in DOMAIN res[1] : ~ QLess(res[2][r], res[1][r])

\* l.21-23: the norm, from the parsimonious fluxes of the first model on its
\* initial medium
NormInit ==
    /\ pc = "get_predicted_fluxes"
    /\ \E res \in PfbaResults \ {<<>>} :
          norm' = QMean(Values(Suppress([r \in DOMAIN res[1] |-> QAbs(res[1][r])])))
    /\ model_i' = 1
    /\ pc' = "pfba_for_media"
    /\ UNCHANGED <<medium_vars, raw_df, pfba_df, fva_m_df, fva_a_df, pfba_dfs,
                   fva_dfs, flux_dfs, flux_df, map_vars>>

\* l.21: pfba(models[0]) is not guarded; Infeasible ends the run
NormInfeasible ==
    /\ pc = "get_predicted_fluxes"
    /\ pc' = "Infeasible"
    /\ UNCHANGED <<medium_vars, table_vars>>

\* pfba_for_media: one column per medium that is feasible (each solve is
\* made inside `with model:`, which leaves the model as it was)
PfbaPass ==
    /\ pc = "pfba_for_media"
    /\ \E res \in [1..MediaCount -> PfbaResults] :
          raw_df' = [index |-> IF Flatten(res) = <<>> THEN {}
                               ELSE {Reactions[i] : i \in 1..Len(Reactions)},
                     columns |-> Flatten(res)]
    /\ pc' = "process_pfba"
    /\ UNCHANGED <<medium_vars, norm, model_i, pfba_df, fva_m_df, fva_a_df,
                   pfba_dfs, fva_dfs, flux_dfs, flux_df, map_vars>>

\* l.32-33
ProcessPfba ==
    /\ pc = "process_pfba"
    /\ pfba_df' = process_fluxes(raw_df, norm, TRUE)
    /\ pfba_dfs' = Update(pfba_dfs, [k \in {ModelIds[model_i]} |-> pfba_df'])
    /\ pc' = "fva_for_media"
    /\ UNCHANGED <<medium_vars, norm, raw_df, model_i, fva_m_df, fva_a_df,
                   fva_dfs, flux_dfs, flux_df, map_vars>>

\* l.37-38, fva_for_media: the reactions the parsimonious frame left
\* missing, for each medium
FvaMediaPass ==
    /\ pc = "fva_for_media"
    /\ LET reactions == find_zero_fluxes(pfba_df)
       IN  \E res \in [1..MediaCount -> {x \in FvaResults(reactions) : Ordered(x)}] :
              raw_df' = [index |-> IF Flatten(res) = <<>> THEN {} ELSE reactions,
                         columns |-> Flatten(res)]
    /\ pc' = "process_fva_m"
    /\ UNCHANGED <<medium_vars, norm, model_i, pfba_df, fva_m_df, fva_a_df,
                   pfba_dfs, fva_dfs, flux_dfs, flux_df, map_vars>>

\* l.42
ProcessFvaM ==
    /\ pc = "process_fva_m"
    /\ fva_m_df' = process_fluxes(raw_df, norm, FALSE)
    /\ pc' = "fva_all_uptakes"
    /\ UNCHANGED <<medium_vars, norm, raw_df, model_i, pfba_df, fva_a_df,
                   pfba_dfs, fva_dfs, flux_dfs, flux_df, map_vars>>

\* l.45-46, fva_all_uptakes: the reactions the bounded frame holds as
\* missing, with every exchange opened; pd.DataFrame() when Infeasible
FvaAllPass ==
    /\ pc = "fva_all_uptakes"
    /\ LET reactions == find_zero_fluxes(fva_m_df)
       IN  \E res \in {x \in FvaResults(reactions) : Ordered(x)} :
              raw_df' = [index |-> IF res = <<>> THEN {} ELSE reactions,
                         columns |-> res]
    /\ pc' = "process_fva_a"
    /\ UNCHANGED <<medium_vars, norm, model_i, pfba_df, fva_m_df, fva_a_df,
                   pfba_dfs, fva_dfs, flux_dfs, flux_df, map_vars>>

\* l.50-52, and the loop's next model
ProcessFvaA ==
    /\ pc = "process_fva_a"
    /\ fva_a_df' = process_fluxes(raw_df, norm, FALSE)
    /\ fva_dfs' = Update(fva_dfs, [k \in {ModelIds[model_i]} |-> fillna(fva_m_df, fva_a_df')])
    /\ IF model_i < Len(ModelIds)
       THEN model_i' = model_i + 1 /\ pc' = "pfba_for_media"
       ELSE model_i' = model_i /\ pc' = "merge_fluxes"
    /\ UNCHANGED <<medium_vars, norm, raw_df, pfba_df, fva_m_df, pfba_dfs,
                   flux_dfs, flux_df, map_vars>>

----------------------------------------------------------------------------
(* flux/process_fluxes.py: merge_fluxes *)

ModelIdSet == {ModelIds[i] : i \in 1..Len(ModelIds)}

\* get_organisms: a model whose organism the lookup does not return has no
\* entry
OrganismDicts == UNION {[S -> ModelOrganisms] : S \in SUBSET ModelIdSet}

\* l.94-95: df.loc[df.flux.notna(), "from_fva"] = tag
Tag(df, tag) ==
    [i \in 1..Len(df) |->
        df[i] @@ ("from_fva" :> IF notna(df[i].flux) THEN tag ELSE "nan")]

\* l.105-106: the columns ORGANISM and BiGG ID
WithOrganism(df, organism) ==
    [i \in 1..Len(df) |-> df[i] @@ ("ORGANISM" :> organism) @@ ("BiGG ID" :> df[i].index)]

\* pd.concat(frames, ignore_index=True)
concat(frames) ==
    LET rows == Flatten(frames)
    IN  [i \in 1..Len(rows) |-> ("index" :> i - 1) @@ rows[i]]

\* DataFrame.dropna(): the rows without a missing value
dropna(df) ==
    SelectSeq(df, LAMBDA row : \A c \in DOMAIN row \ {"index"} : ~ IsMissing(row, c))

MergeFluxes ==
    /\ pc = "merge_fluxes"
    /\ pfba_dfs' = [k \in DOMAIN pfba_dfs |-> Tag(pfba_dfs[k], "False")]
    /\ fva_dfs' = [k \in DOMAIN fva_dfs |-> Tag(fva_dfs[k], "True")]
    /\ \E organism_dict \in OrganismDicts :
          LET filled == [k \in DOMAIN pfba_dfs |-> fillna(pfba_dfs'[k], fva_dfs'[k])]
          IN  IF DOMAIN filled \subseteq DOMAIN organism_dict
              THEN /\ flux_dfs' = [k \in DOMAIN filled |->
                                      WithOrganism(filled[k], organism_dict[k])]
                   /\ flux_df' = dropna(concat([i \in 1..Len(ModelIds) |->
                                                   flux_dfs'[ModelIds[i]]]))
                   /\ pc' = "map_kcat_to_fluxes"
              ELSE \* l.105: organism_dict[k] raises KeyError
                   /\ flux_dfs' = filled
                   /\ flux_df' = flux_df
                   /\ pc' = "KeyError"
    /\ UNCHANGED <<medium_vars, norm, raw_df, model_i, pfba_df, fva_m_df,
                   fva_a_df, map_vars>>

\* medium discovery is over and the model is outside every context
DiscoveryIdle ==
    /\ model_bounds = InitBounds
    /\ history = <<>>
    /\ oracle = NoAnswers
    /\ idx = 1
    /\ c_sources = EmptyDict
    /\ c_bound = 0
    /\ ess_ex = {}
    /\ medium = EmptyDict
    /\ rand_c = EmptyDict
    /\ old_medium = EmptyDict
    /\ uptakes = {}
    /\ uptake = ""
    /\ growth_rate = NaN
    /\ candidate = EmptyDict
    /\ minimal_media = <<>>
    /\ solver = "none"

FluxInit ==
    /\ pc = "get_predicted_fluxes"
    /\ DiscoveryIdle
    /\ NoTables

FluxNext ==
    \/ NormInit
    \/ NormInfeasible
    \/ PfbaPass
    \/ ProcessPfba
    \/ FvaMediaPass
    \/ ProcessFvaM
    \/ FvaAllPass
    \/ ProcessFvaA
    \/ MergeFluxes

FluxSpec == FluxInit /\ [][FluxNext]_vars

----------------------------------------------------------------------------
(* Merge fill-order *)

\* the flux of reaction r in frame df, missing when df has no row r
FluxAt(df, r) == IF r \in IndexOf(df) THEN Row(df, r).flux ELSE nan

\* the first value that is not missing, in the order a, b, c
FirstNonMissing(a, b, c) == IF notna(a) THEN a ELSE IF notna(b) THEN b ELSE c

\* merge_fluxes has returned
Merged == pc = "map_kcat_to_fluxes"

\* the model whose passes ran last: its three frames are still at hand
LastModel == ModelIds[model_i]

\* C6: per model and for every reaction, the merged flux is the first
\* non-missing value in the order parsimonious pass, bounded variability
\* pass, open-uptake variability pass: a value the parsimonious pass resolved
\* is the final flux, tagged not-from-variability, and an open-uptake value
\* is used only where both earlier passes left the reaction missing.
C6_MergeFillOrder ==
    Merged =>
        /\ \A k \in ModelIdSet : \A r \in IndexOf(pfba_dfs[k]) :
              notna(FluxAt(pfba_dfs[k], r)) =>
                  /\ r \in IndexOf(flux_dfs[k])
                  /\ Row(flux_dfs[k], r).flux = FluxAt(pfba_dfs[k], r)
                  /\ Row(flux_dfs[k], r).from_fva = "False"
        /\ \A r \in IndexOf(pfba_df) :
              /\ r \in IndexOf(flux_dfs[LastModel])
              /\ Row(flux_dfs[LastModel], r).flux =
                    FirstNonMissing(FluxAt(pfba_df, r), FluxAt(fva_m_df, r), FluxAt(fva_a_df, r))
              /\ Row(flux_dfs[LastModel], r).from_fva =
                    IF notna(FluxAt(pfba_df, r)) THEN "False"
                    ELSE IF notna(Row(flux_dfs[LastModel], r).flux) THEN "True" ELSE "nan"

\* merged: one reaction of the last model keeps its parsimonious value, one
\* is filled by the bounded pass of the first model, and one of the last
\* model by the open-uptake pass after both earlier passes left it missing
C6_Witness ==
    /\ Merged
    /\ \E r \in IndexOf(pfba_df) : notna(FluxAt(pfba_df, r))
    /\ \E r \in IndexOf(pfba_df) :
          /\ isna(FluxAt(pfba_df, r))
          /\ r \in IndexOf(fva_m_df) /\ isna(FluxAt(fva_m_df, r))
          /\ notna(FluxAt(fva_a_df, r))
          /\ Row(flux_dfs[LastModel], r).flux = FluxAt(fva_a_df, r)
    /\ \E r \in IndexOf(pfba_dfs[ModelIds[1]]) :
          /\ isna(FluxAt(pfba_dfs[ModelIds[1]], r))
          /\ Row(flux_dfs[ModelIds[1]], r).from_fva = "True"

----------------------------------------------------------------------------
(* kcat_flux_mapping/mapping.py: tables *)

\* Bound of the kinetic dataset: the number of its records
MaxKcat == 2

\* the organisms of the kinetic records: the organism of a model, one of its
\* class, one that shares the phylum with one model organism and the domain
\* with the other, and one that shares only the root of the taxonomy
KcatOrganisms == {"Escherichia", "Salmonella", "Helicobacter", "Homo"}

\* the first four names of the organism's NCBI lineage (levels 0 to 3); the
\* empty string at every level when the taxonomy does not know the organism
Lineage(organism) ==
    CASE organism \in {"Escherichia", "Salmonella"} ->
            <<"cellular organisms", "Bacteria", "Proteobacteria", "Gammaproteobacteria">>
      [] organism = "Helicobacter" ->
            <<"cellular organisms", "Bacteria", "Proteobacteria", "Epsilonproteobacteria">>
      [] organism = "Bacillus" ->
            <<"cellular organisms", "Bacteria", "Firmicutes", "Bacilli">>
      [] organism = "Homo" ->
            <<"cellular organisms", "Eukaryota", "Opisthokonta", "Metazoa">>
      [] OTHER -> <<"", "", "", "">>

\* the name of the lineage column of level i
LineageCol(i) == "lineage " \o ToString(i)

\* add_lineage: the four lineage columns, from the row's organism
add_lineage(df) ==
    [n \in 1..Len(df) |->
        [c \in {LineageCol(i) : i \in 0..3} |->
            Lineage(df[n]["ORGANISM"])[(CHOOSE i \in 0..3 : LineageCol(i) = c) + 1]]
        @@ df[n]]

\* the strings of the tables, in the order Python compares them
StringOrder ==
    <<"", "Bacilli", "Bacillus", "Bacteria", "Candidatus", "Epsilonproteobacteria",
      "Escherichia",
      "Eukaryota", "False", "Firmicutes", "Gammaproteobacteria", "Helicobacter",
      "Homo", "Metazoa", "Opisthokonta", "PFK", "PGI", "Proteobacteria",
      "Salmonella", "True", "cellular organisms">>

Rank(s) == CHOOSE i \in 1..Len(StringOrder) : StringOrder[i] = s

RECURSIVE LexLess(_, _)
\* a < b for tuples of strings of the same length
LexLess(a, b) ==
    /\ a # <<>>
    /\ \/ Rank(Head(a)) < Rank(Head(b))
       \/ Head(a) = Head(b) /\ LexLess(Tail(a), Tail(b))

RECURSIVE SortedKeys(_)
\* the tuples of S in ascending order
SortedKeys(S) ==
    IF S = {} THEN <<>>
    ELSE LET least == CHOOSE x \in S : \A y \in S \ {x} : LexLess(x, y)
         IN  <<least>> \o SortedKeys(S \ {least})

\* the values of the columns cols of a row
KeyOf(row, cols) == [j \in 1..Len(cols) |-> row[cols[j]]]

\* df.set_index(cols, drop=False)
set_index(df, cols) ==
    [n \in 1..Len(df) |-> ("index" :> KeyOf(df[n], cols)) @@ df[n]]

\* df.sort_index()
sort_index(df) == SortSeq(df, LAMBDA a, b : LexLess(a.index, b.index))

\* np.log10 of a flux; the fluxes of the tables are powers of ten
log10(q) ==
    CASE q = Q(1, 1)   -> Q(0, 1)
      [] q = Q(10, 1)  -> Q(1, 1)
      [] q = Q(100, 1) -> Q(2, 1)
      [] OTHER         -> nan

\* the values of column c of the rows of df
Column(df, c) == [n \in 1..Len(df) |-> df[n][c]]

\* df.groupby(keys, as_index=False).mean(): one row per group, in the order of
\* the keys, with the keys and the means of the numeric columns
groupby_mean(df, keys) ==
    LET groups == SortedKeys({KeyOf(df[n], keys) : n \in 1..Len(df)})
        Members(g) == SelectSeq(df, LAMBDA row : KeyOf(row, keys) = g)
    IN  [n \in 1..Len(groups) |->
            [c \in {keys[j] : j \in 1..Len(keys)} \cup {"flux", "log10_flux"} |->
                CASE c = "flux" -> QMean(Column(Members(groups[n]), "flux"))
                  [] c = "log10_flux" -> QMean(Column(Members(groups[n]), "log10_flux"))
                  [] OTHER -> groups[n][CHOOSE j \in 1..Len(keys) : keys[j] = c]]]

\* df[df["from_fva"] == tag]
WhereFromFva(df, tag) == SelectSeq(df, LAMBDA row : row["from_fva"] = tag)

\* the rows of the flux table that a kinetic record matches on the columns on
Matches(flux, kcat_row, on) ==
    SelectSeq(flux, LAMBDA row : KeyOf(row, on) = KeyOf(kcat_row, on))

\* the columns the join takes from the flux table
FluxColumns == {"flux", "from_fva", "log10_flux"}

\* the rows a kinetic record contributes to the left join: one per matching
\* flux row, or one with the flux columns missing.  The field `tier` is not a
\* column of the code's table: it records which tier gave the row its flux.
JoinOne(flux, kcat_row, on) ==
    LET found == Matches(flux, kcat_row, on)
    IN  IF found = <<>>
        THEN <<kcat_row @@ ("flux" :> nan) @@ ("from_fva" :> "nan")
                        @@ ("log10_flux" :> nan) @@ ("tier" :> "none")>>
        ELSE [j \in 1..Len(found) |->
                 kcat_row @@ [c \in FluxColumns |-> found[j][c]] @@ ("tier" :> "exact")]

\* a join on the reaction id alone
merge_OnReaction(kcat, flux, on) ==
    concat([n \in 1..Len(kcat) |-> JoinOne(flux, kcat[n], <<"BiGG ID">>)])

\* pd.merge(kcat, flux, how="left", on=on)
merge(kcat, flux, on) ==
    concat([n \in 1..Len(kcat) |-> JoinOne(flux, kcat[n], on)])

----------------------------------------------------------------------------
(* kcat_flux_mapping/mapping.py: map_kcat_to_fluxes *)

ReactionSet == {Reactions[i] : i \in 1..Len(Reactions)}

\* log10_kcat of a kinetic record
KcatValues == {Q(1, 1)}

\* load_kcat_dataframe: one record per (reaction id, organism), in the order
\* of the groupby, with the lineage of the organism
KcatDatasets ==
    LET keys == {<<r, o>> : r \in ReactionSet, o \in KcatOrganisms}
    IN  UNION {
            {add_lineage([n \in 1..Len(SortedKeys(S)) |->
                             [c \in {"BiGG ID", "ORGANISM", "log10_kcat"} |->
                                 CASE c = "BiGG ID" -> SortedKeys(S)[n][1]
                                   [] c = "ORGANISM" -> SortedKeys(S)[n][2]
                                   [] OTHER -> v[SortedKeys(S)[n]]]])
                : v \in [S -> KcatValues]}
            : S \in {T \in SUBSET keys : Cardinality(T) <= MaxKcat}}

\* range(1, 4)
LineageLevels_Ascending == <<1, 2, 3>>
\* range(3, -1, -1)
LineageLevels_WithLevel0 == <<3, 2, 1, 0>>
\* range(3, 0, -1)
LineageLevels == <<3, 2, 1>>

\* l.23: the column log10_flux
WithLog10(df) ==
    [n \in 1..Len(df) |-> ("log10_flux" :> log10(QAbs(df[n]["flux"]))) @@ df[n]]

\* the rows of new, those that got their flux in this fill marked with tier
MarkTier(old, new, tier) ==
    [n \in 1..Len(new) |->
        IF isna(old[n]["flux"]) /\ notna(new[n]["flux"])
        THEN ("tier" :> tier) @@ new[n]
        ELSE new[n]]

\* exact_df.fillna(groups tagged not-from-fva).fillna(groups tagged from-fva)
FillFromGroups(df, groups) ==
    fillna(fillna(df, WhereFromFva(groups, "False")), WhereFromFva(groups, "True"))

\* l.22-30: the kinetic dataset, the exact tier, the lineage of the flux table
ExactMerge ==
    /\ pc = "map_kcat_to_fluxes"
    /\ \E dataset \in KcatDatasets : kcat_df' = dataset
    /\ exact_df' = merge(kcat_df', WithLog10(flux_df), <<"BiGG ID", "ORGANISM">>)
    /\ flux_df' = add_lineage(WithLog10(flux_df))
    /\ lin_i' = 1
    /\ kcat_flux_df' = kcat_flux_df
    \* the frames of get_predicted_fluxes are gone when it has returned
    /\ pfba_dfs' = EmptyDict /\ fva_dfs' = EmptyDict /\ flux_dfs' = EmptyDict
    /\ pc' = "lineage_mapping"
    /\ UNCHANGED <<medium_vars, norm, raw_df, model_i, pfba_df, fva_m_df, fva_a_df>>

\* l.31-41: one pass of the loop over the lineage levels
LineageFill ==
    /\ pc = "lineage_mapping"
    /\ lin_i <= Len(LineageLevels)
    /\ LET col == LineageCol(LineageLevels[lin_i])
           lin_df == sort_index(set_index(
                         groupby_mean(flux_df, <<"BiGG ID", col, "from_fva">>),
                         <<"BiGG ID", col>>))
           indexed == sort_index(set_index(exact_df, <<"BiGG ID", col>>))
       IN  exact_df' = MarkTier(indexed, FillFromGroups(indexed, lin_df), col)
    /\ lin_i' = lin_i + 1
    /\ UNCHANGED <<pc, medium_vars, norm, raw_df, model_i, pfba_df, fva_m_df,
                   fva_a_df, pfba_dfs, fva_dfs, flux_dfs, flux_df, kcat_df,
                   kcat_flux_df>>

\* l.44-53: the inexact tier and the final dropna
InexactFill ==
    /\ pc = "lineage_mapping"
    /\ lin_i > Len(LineageLevels)
    /\ LET inexact_df == set_index(groupby_mean(flux_df, <<"BiGG ID", "from_fva">>),
                                   <<"BiGG ID">>)
           indexed == set_index(exact_df, <<"BiGG ID">>)
       IN  exact_df' = MarkTier(indexed, FillFromGroups(indexed, inexact_df), "inexact")
    /\ kcat_flux_df' = dropna(exact_df')
    /\ pc' = "mapped"
    /\ UNCHANGED <<medium_vars, norm, raw_df, model_i, pfba_df, fva_m_df,
                   fva_a_df, pfba_dfs, fva_dfs, flux_dfs, flux_df, kcat_df, lin_i>>

\* the fluxes of the processed frames handed to merge_fluxes
FluxValues == {Q(1, 1), Q(100, 1)}
FvaValues == {Q(100, 1)}

\* a processed parsimonious frame: a flux or a missing value per reaction,
\* no row when every medium was infeasible
PfbaFrames == {<<>>} \cup {FluxFrame(col) : col \in [ReactionSet -> FluxValues \cup {nan}]}

\* the variability frame that goes with a parsimonious frame: rows for the
\* reactions that frame holds as missing, or no row
FvaFrames(pfba) ==
    {<<>>} \cup {FluxFrame(col) : col \in [find_zero_fluxes(pfba) -> FvaValues \cup {nan}]}

\* merge_fluxes and map_kcat_to_fluxes, applied to frames of every model
MapInit ==
    /\ pc = "merge_fluxes"
    /\ DiscoveryIdle
    /\ norm = nan
    /\ raw_df = EmptyFrame
    /\ model_i = Len(ModelIds)
    /\ pfba_df = EmptyDict
    /\ fva_m_df = EmptyDict
    /\ fva_a_df = EmptyDict
    /\ pfba_dfs \in [ModelIdSet -> PfbaFrames]
    /\ fva_dfs \in [ModelIdSet -> UNION {FvaFrames(p) : p \in PfbaFrames}]
    /\ \A k \in ModelIdSet : fva_dfs[k] \in FvaFrames(pfba_dfs[k])
    /\ flux_dfs = EmptyDict
    /\ flux_df = <<>>
    /\ kcat_df = <<>>
    /\ exact_df = <<>>
    /\ lin_i = 0
    /\ kcat_flux_df = <<>>

MapNext ==
    \/ MergeFluxes
    \/ ExactMerge
    \/ LineageFill
    \/ InexactFill

MapSpec == MapInit /\ [][MapNext]_vars

----------------------------------------------------------------------------
(* Tier precedence and monotone dropout *)

\* map_kcat_to_fluxes has returned
Mapped == pc = "mapped"

\* the flux rows of the reaction of record e
SameReaction(e) == SelectSeq(flux_df, LAMBDA f : f["BiGG ID"] = e["BiGG ID"])

\* the flux rows of the reaction and organism of record e
SameOrganism(e) == SelectSeq(SameReaction(e), LAMBDA f : f["ORGANISM"] = e["ORGANISM"])

\* the flux rows of the reaction of e that share lineage level i with e
SameLineage(e, i) ==
    SelectSeq(SameReaction(e), LAMBDA f : f[LineageCol(i)] = e[LineageCol(i)])

\* the average of a group of flux rows: of its rows tagged not-from-fva when
\* there are any, else of its rows tagged from-fva
GroupAverage(rows) ==
    LET tag == IF WhereFromFva(rows, "False") # <<>> THEN "False" ELSE "True"
    IN  [flux |-> QMean(Column(WhereFromFva(rows, tag), "flux")), from_fva |-> tag]

\* the most specific of the lineage levels in S that e shares with a flux row
\* of its reaction; -1 when it shares none
SharedLevel(e, S) ==
    LET shared == {i \in S : SameLineage(e, i) # <<>>}
    IN  IF shared = {} THEN -1 ELSE CHOOSE i \in shared : \A j \in shared : j <= i

\* record e has the flux the tiers give it when the lineage tier is the
\* levels in S: the exact match, else the group average of the most specific
\* shared level, else the average over the reaction, else nothing
FilledInOrder(e, S) ==
    IF SameOrganism(e) # <<>>
    THEN /\ e["tier"] = "exact"
         /\ \E n \in 1..Len(SameOrganism(e)) :
               /\ e["flux"] = SameOrganism(e)[n]["flux"]
               /\ e["from_fva"] = SameOrganism(e)[n]["from_fva"]
    ELSE IF SharedLevel(e, S) # -1
    THEN /\ e["tier"] = LineageCol(SharedLevel(e, S))
         /\ e["flux"] = GroupAverage(SameLineage(e, SharedLevel(e, S))).flux
         /\ e["from_fva"] = GroupAverage(SameLineage(e, SharedLevel(e, S))).from_fva
    ELSE IF SameReaction(e) # <<>>
    THEN /\ e["tier"] = "inexact"
         /\ e["flux"] = GroupAverage(SameReaction(e)).flux
         /\ e["from_fva"] = GroupAverage(SameReaction(e)).from_fva
    ELSE e["tier"] = "none" /\ isna(e["flux"])

\* C7: each tier only fills records still missing a value, in the order
\* exact match, lineage levels from most to least specific, reaction-id-only
\* match: an exact match is kept, a more specific level is not overwritten
\* by a less specific one, and a record that shares a lineage level (any of
\* the four) with a flux record is filled from that level's group average,
\* not from the inexact tier.
C7_TierPrecedence ==
    Mapped => \A n \in 1..Len(exact_df) : FilledInOrder(exact_df[n], 0..3)

\* C7, amended: as above, with the lineage tier being the levels 3, 2 and 1;
\* a record that shares only level 0 with the flux records of its reaction
\* is filled by the inexact tier.
C7_TierPrecedence_Levels321 ==
    Mapped => \A n \in 1..Len(exact_df) : FilledInOrder(exact_df[n], 1..3)

\* mapped: one record kept its exact value although the group of its class
\* averages to another value, and one record was filled with the average of
\* two flux rows of its class
C7_Witness ==
    /\ Mapped
    /\ \E n \in 1..Len(exact_df) :
          /\ exact_df[n]["tier"] = "exact"
          /\ exact_df[n]["flux"] # GroupAverage(SameLineage(exact_df[n], 3)).flux
    /\ \E n \in 1..Len(exact_df) :
          /\ exact_df[n]["tier"] = LineageCol(3)
          /\ Len(SameLineage(exact_df[n], 3)) > 1
          /\ exact_df[n]["flux"] = GroupAverage(SameLineage(exact_df[n], 3)).flux

RECURSIVE SumLen(_)
\* the total number of rows of a sequence of frames
SumLen(frames) == IF frames = <<>> THEN 0 ELSE Len(Head(frames)) + SumLen(Tail(frames))

\* the sum over the models of the row counts of the parsimonious frames
PfbaRows == SumLen([i \in 1..Len(ModelIds) |-> pfba_dfs[ModelIds[i]]])

\* the number of rows of the left join of the kinetic dataset with the flux
\* table: per record, one row per flux row of its reaction and organism, and
\* one row when there is none
JoinRows ==
    SumLen([n \in 1..Len(kcat_df) |->
               IF SameOrganism(kcat_df[n]) = <<>> THEN <<kcat_df[n]>>
               ELSE SameOrganism(kcat_df[n])])

\* C8: the table map_kcat_to_fluxes returns has at most as many rows as the
\* flux table it was given, and the table merge_fluxes returns at most as
\* many as the parsimonious frames of the models together.
C8_MonotoneDropout ==
    /\ Mapped => Len(kcat_flux_df) <= Len(flux_df)
    /\ Merged => Len(flux_df) <= PfbaRows

\* C8, amended: the table map_kcat_to_fluxes returns has at most as many
\* rows as the left join of the kinetic dataset with the flux table on
\* (reaction id, organism); the bound on merge_fluxes is as stated.
C8_DropoutFromJoin ==
    /\ Mapped => Len(kcat_flux_df) <= JoinRows
    /\ Merged => Len(flux_df) <= PfbaRows

\* mapped: a kinetic record was joined with the flux rows of two models of
\* its organism, and another record, with no flux of its reaction, dropped
C8_Witness ==
    /\ Mapped
    /\ Len(exact_df) > Len(kcat_df)
    /\ Len(kcat_flux_df) > 0
    /\ Len(kcat_flux_df) < Len(exact_df)

----------------------------------------------------------------------------
(* Missing organism metadata *)

\* C11: a model whose organism the metadata lookup does not return is not
\* fatal: merge_fluxes still completes and emits the flux rows of the other
\* models; the run is not aborted by an error.
C11_MissingOrganismNonFatal == pc # "KeyError"

----------------------------------------------------------------------------
(* The levels of the lineage tier *)

\* record e has no flux row of its reaction and organism, shares none of the
\* lineage levels 3, 2 and 1 with a flux row of its reaction, and shares
\* level 0 with one
SharesOnlyLevel0(e) ==
    /\ SameOrganism(e) = <<>>
    /\ SharedLevel(e, 1..3) = -1
    /\ SameLineage(e, 0) # <<>>

\* the loop over the lineage levels is at its pass number lin_i
InLineagePass == pc = "lineage_mapping" /\ lin_i <= Len(LineageLevels)

\* C12: the lineage tier tries all four lineage levels, in the order 3, 2,
\* 1, 0: a record still missing a value after levels 3, 2 and 1 whose level
\* 0 matches a flux record of its reaction is filled from the level-0 group
\* average before the inexact tier is applied.
C12_Levels3210 ==
    /\ InLineagePass => LineageLevels[lin_i] = 4 - lin_i
    /\ Mapped => \A n \in 1..Len(exact_df) :
          SharesOnlyLevel0(exact_df[n]) =>
              /\ exact_df[n]["tier"] = LineageCol(0)
              /\ exact_df[n]["flux"] = GroupAverage(SameLineage(exact_df[n], 0)).flux

\* C12, amended: the lineage tier tries the three lineage levels 3, 2, 1, in
\* this order, and not level 0: a record still missing a value after them is
\* filled by the inexact tier, from the average over all flux records of its
\* reaction, also when its level 0 matches one of them.
C12_Levels321 ==
    /\ InLineagePass => LineageLevels[lin_i] = 4 - lin_i
    /\ Mapped => \A n \in 1..Len(exact_df) :
          SharesOnlyLevel0(exact_df[n]) =>
              /\ exact_df[n]["tier"] = "inexact"
              /\ exact_df[n]["flux"] = GroupAverage(SameReaction(exact_df[n])).flux
              /\ exact_df[n]["from_fva"] = GroupAverage(SameReaction(exact_df[n])).from_fva

\* mapped: a record that shares only level 0 with a flux record of its
\* reaction has the average over the reaction, which is not the average of
\* its level-0 group
C12_Witness ==
    /\ Mapped
    /\ \E n \in 1..Len(exact_df) :
          /\ SharesOnlyLevel0(exact_df[n])
          /\ notna(exact_df[n]["flux"])
          /\ exact_df[n]["flux"] # GroupAverage(SameLineage(exact_df[n], 0)).flux

----------------------------------------------------------------------------
(* C13: thresholding in the variability passes *)

\* l.124, l.131 and l.133 with is_pfba False: the flux of each reaction
\* averaged over the normalised columns of the raw variability frame, every
\* value of a column included, before l.134
AveragedFlux(df, nrm) ==
    RowMean([index |-> df.index,
             columns |-> [i \in 1..Len(df.columns) |->
                             Normalize([r \in df.index |-> QAbs(df.columns[i][r])], nrm)]])

\* the bounded variability frame has been processed from raw_df
BoundedProcessed == pc = "fva_all_uptakes"

\* the open-uptake variability frame has been processed from raw_df
OpenProcessed == pc \in {"pfba_for_media", "merge_fluxes"}

\* the reactions of raw_df whose averaged variability flux is resolved and
\* below the tolerance
LowAverages ==
    {r \in raw_df.index : QLess(AveragedFlux(raw_df, norm)[r], Tolerance)}

\* C13: in the variability passes no value is suppressed for being below the
\* tolerance: a reaction whose averaged variability flux is resolved but below
\* the tolerance stays resolved in the processed frame and is not among the
\* reactions handed to the next fallback.
C13_NoSuppressionInVariability ==
    /\ BoundedProcessed => LowAverages \cap find_zero_fluxes(fva_m_df) = {}
    /\ OpenProcessed => LowAverages \cap find_zero_fluxes(fva_a_df) = {}

\* the processed frame holds r as missing exactly when the averaged flux of r
\* is missing or below the tolerance
ThresholdedAverage(frame) ==
    /\ IndexOf(frame) = raw_df.index
    /\ \A r \in raw_df.index :
          r \in find_zero_fluxes(frame) <=>
              \/ isna(AveragedFlux(raw_df, norm)[r])
              \/ QLess(AveragedFlux(raw_df, norm)[r], Tolerance)

\* C13 (amended): in the variability passes the values of a medium's column
\* that are below the tolerance are kept and enter the average, but the
\* averaged flux is thresholded: a reaction is missing in the processed frame,
\* and handed to the next fallback, exactly when its averaged flux is missing
\* or below the tolerance.
C13_AverageThresholded ==
    /\ BoundedProcessed => ThresholdedAverage(fva_m_df)
    /\ OpenProcessed => ThresholdedAverage(fva_a_df)

\* a reaction of the bounded pass with a positive averaged flux below the
\* tolerance is held as missing while another one is resolved
C13_Witness ==
    /\ BoundedProcessed
    /\ \E r \in LowAverages :
          /\ AveragedFlux(raw_df, norm)[r][1] > 0
          /\ r \in find_zero_fluxes(fva_m_df)
    /\ find_zero_fluxes(fva_m_df) # raw_df.index

----------------------------------------------------------------------------
(* C14: the reactions handed to the open-uptake pass *)

\* the reactions the parsimonious pass left missing and the bounded
\* variability pass did not resolve
UnresolvedAfterBounded ==
    {r \in find_zero_fluxes(pfba_df) :
        ~ (r \in IndexOf(fva_m_df) /\ notna(Row(fva_m_df, r).flux))}

\* fva_all_uptakes returns the rows of a feasible solve (one row per reaction
\* of its reaction list)
OpenUptakeSolved ==
    /\ pc = "fva_all_uptakes"
    /\ pc' = "process_fva_a"
    /\ raw_df'.columns # <<>>

\* C14: the open-uptake variability pass is requested for exactly the
\* reactions still unresolved after the bounded variability pass; when the
\* bounded pass is empty because the solve was infeasible for every medium,
\* these are all the reactions the parsimonious pass left unresolved.
C14_OpenUptakeRequest ==
    [][OpenUptakeSolved => raw_df'.index = UnresolvedAfterBounded]_vars
====
